---- MODULE Spec2Model ----
(***************************************************************************)
(* Model of the `zipped` crate (src/src/lib.rs).                           *)
(*                                                                         *)
(* The crate is a family of trait instances `impl UnzipFrom<Src> for Tgt`. *)
(* Two of them are written by hand for the 1-tuple and the pair, two are   *)
(* generic lifters through Option and Result, and the rest are emitted by  *)
(* the recursive macro nested!, which uses the macros left! and right! to  *)
(* build the nested tuple type and the destructuring pattern.              *)
(*                                                                         *)
(* The model has two phases.  First the macro invocation of line 167 is    *)
(* expanded rule by rule, appending the emitted instances to the crate's   *)
(* item list.  Then call sites `value.unzip_into()` are resolved against   *)
(* the item list (trait selection on the pair source type / target type)   *)
(* and, when an instance applies, evaluated on a value.                    *)
(***************************************************************************)
EXTENDS Integers, Sequences, FiniteSets, TLC

VARIABLES pending, items, call

vars == <<pending, items, call>>

----------------------------------------------------------------------------
(* Bounds of the call sites explored.                                      *)

\* Largest number of leaves of a left- or right-nested source value.
MaxArity == 27
\* Largest number of leaves of the arbitrary (mixed) binary nestings.
MaxTree == 4
\* Target types open up to MaxPeel pairs of the source, or all but one, or all.
MaxPeel == 2
\* Leaf k has the primitive type 1 + (k % b) and is the number b * k, for b
\* in 1..NumBase.
NumBase == 2
\* Error values carried by Err.
MaxErr == 2

----------------------------------------------------------------------------
(* Terms.  Types, patterns, expressions and values are all trees of the    *)
(* same record shape: a constructor k, a number id and the children el.    *)

Node(kind, n, children) == [k |-> kind, id |-> n, el |-> children]

\* An identifier token: a type parameter in a type, a binding in a pattern.
Ident(i) == Node("ident", i, <<>>)
\* The tuple (e1, ..., en,).
Tup(es) == [k |-> "tup", id |-> 0, el |-> es]
\* The types Option<t> and Result<t, e>.
OptionTy(t) == Node("option", 0, <<t>>)
ResultTy(t, e) == Node("result", 0, <<t, e>>)
\* A primitive type and a primitive value.
Prim(b) == Node("prim", b, <<>>)
Lit(v) == Node("lit", v, <<>>)
\* The values of Option and Result.
Some(x) == Node("some", 0, <<x>>)
None == Node("none", 0, <<>>)
Ok(x) == Node("ok", 0, <<x>>)
Err(e) == Node("err", 0, <<e>>)

\* The invocation of nested! with one identifier more.
Alphabet_27 ==
    <<1, 2, 3, 4, 5, 6, 7, 8, 9, 10, 11, 12, 13, 14,
      15, 16, 17, 18, 19, 20, 21, 22, 23, 24, 25, 26, 27>>

\* The identifiers A B ... Z of the invocation of nested!, as 1..26.
AlphabetLen == 26
Alphabet ==
    <<1, 2, 3, 4, 5, 6, 7, 8, 9, 10, 11, 12, 13,
      14, 15, 16, 17, 18, 19, 20, 21, 22, 23, 24, 25, 26>>
\* The letters used by the hand-written instances.
IdA == 1
IdB == 2
IdE == 5
IdT == 20
IdU == 21
\* The parameter name `tuple` of the hand-written functions.
IdTuple == 0

Idents(ids) == [i \in 1..Len(ids) |-> Ident(ids[i])]

----------------------------------------------------------------------------
(* The macros left! and right!, on a sequence of token trees.              *)

\* left! with the pair of its third rule written the wrong way round.
RECURSIVE left_swapped(_)
left_swapped(tts) ==
    IF Len(tts) = 1 THEN tts[1]
    ELSE IF Len(tts) = 2 THEN Tup(<<tts[1], tts[2]>>)
    ELSE left_swapped(<<Tup(<<tts[2], tts[1]>>)>> \o SubSeq(tts, 3, Len(tts)))

\* left! with its third rule recursing on the rest, as right! does.
RECURSIVE left_grouped(_)
left_grouped(tts) ==
    IF Len(tts) = 1 THEN tts[1]
    ELSE IF Len(tts) = 2 THEN Tup(<<tts[1], tts[2]>>)
    ELSE Tup(<<Tup(<<tts[1], tts[2]>>), left_grouped(SubSeq(tts, 3, Len(tts)))>>)

RECURSIVE left(_)
left(tts) ==
    IF Len(tts) = 1 THEN tts[1]
    ELSE IF Len(tts) = 2 THEN Tup(<<tts[1], tts[2]>>)
    ELSE left(<<Tup(<<tts[1], tts[2]>>)>> \o SubSeq(tts, 3, Len(tts)))

\* right! with the first two tokens of its third rule exchanged.
RECURSIVE right_swapped(_)
right_swapped(tts) ==
    IF Len(tts) = 1 THEN tts[1]
    ELSE IF Len(tts) = 2 THEN Tup(<<tts[1], tts[2]>>)
    ELSE Tup(<<tts[2], Tup(<<tts[1], right_swapped(SubSeq(tts, 3, Len(tts)))>>)>>)

RECURSIVE right(_)
right(tts) ==
    IF Len(tts) = 1 THEN tts[1]
    ELSE IF Len(tts) = 2 THEN Tup(<<tts[1], tts[2]>>)
    ELSE Tup(<<tts[1], Tup(<<tts[2], right(SubSeq(tts, 3, Len(tts)))>>)>>)

----------------------------------------------------------------------------
(* Matching a pattern against a term, and instantiating a term.            *)

\* The term has the structure of the pattern (an identifier matches all).
RECURSIVE Matches(_, _)
Matches(pat, t) ==
    IF pat.k = "ident" THEN TRUE
    ELSE /\ t.k = pat.k
         /\ Len(t.el) = Len(pat.el)
         /\ \A i \in 1..Len(pat.el) : Matches(pat.el[i], t.el[i])

\* The pairs <<identifier, subterm>> bound by a successful match.
RECURSIVE Binds(_, _)
Binds(pat, t) ==
    IF pat.k = "ident" THEN {<<pat.id, t>>}
    ELSE UNION {Binds(pat.el[i], t.el[i]) : i \in 1..Len(pat.el)}

\* No identifier is bound to two different terms.
Consistent(bs) == \A p \in bs, q \in bs : p[1] = q[1] => p[2] = q[2]

Lookup(bs, i) == (CHOOSE p \in bs : p[1] = i)[2]

\* The expression with every identifier replaced by what it is bound to.
RECURSIVE Subst(_, _)
Subst(e, bs) ==
    IF e.k = "ident" THEN Lookup(bs, e.id)
    ELSE [k |-> e.k, id |-> e.id, el |-> [i \in 1..Len(e.el) |-> Subst(e.el[i], bs)]]

----------------------------------------------------------------------------
(* The items of the crate: `impl<ids> UnzipFrom<Src> for Tgt where Where`  *)
(* with the function unzip_from.  An item is kept as written, its kind and *)
(* its type parameters; the invocations of left! and right! in it are      *)
(* expanded where the item is used.                                        *)

Item(by, ids) == [by |-> by, ids |-> ids]

\* impl<T, U> UnzipFrom<Option<T>> for Option<U> where U: UnzipFrom<T>
OptionImpl == Item("option", <<IdT, IdU>>)
\* impl<T, E, U> UnzipFrom<Result<T, E>> for Result<U, E> where U: UnzipFrom<T>
ResultImpl == Item("result", <<IdT, IdE, IdU>>)
\* impl<A> UnzipFrom<(A,)> for (A,)
Tuple1Impl == Item("tuple", <<IdA>>)
\* impl<A, B> UnzipFrom<(A, B)> for (A, B)
Tuple2Impl == Item("tuple", <<IdA, IdB>>)
\* The two instances emitted by the third rule of nested! for `@ ids ;`.
LeftImpl(ids) == Item("left", ids)
RightImpl(ids) == Item("right", ids)

\* The right instance declared for the left-nested type.
Src_RightAsLeft(item) ==
    CASE item.by = "option" -> OptionTy(Ident(IdT))
      [] item.by = "result" -> ResultTy(Ident(IdT), Ident(IdE))
      [] item.by = "tuple" -> Tup(Idents(item.ids))
      [] item.by = "left" -> left(Idents(item.ids))
      [] item.by = "right" -> left(Idents(item.ids))

\* The type the instance converts from.
Src(item) ==
    CASE item.by = "option" -> OptionTy(Ident(IdT))
      [] item.by = "result" -> ResultTy(Ident(IdT), Ident(IdE))
      [] item.by = "tuple" -> Tup(Idents(item.ids))
      [] item.by = "left" -> left(Idents(item.ids))
      [] item.by = "right" -> right(Idents(item.ids))

\* The type the instance is for.
Tgt(item) ==
    CASE item.by = "option" -> OptionTy(Ident(IdU))
      [] item.by = "result" -> ResultTy(Ident(IdU), Ident(IdE))
      [] OTHER -> Tup(Idents(item.ids))

\* The where clauses `U: UnzipFrom<T>` as pairs <<U, T>>.
Where(item) ==
    IF item.by \in {"option", "result"} THEN {<<IdU, IdT>>} ELSE {}

\* The body of unzip_from is `arg.map(UnzipFrom::unzip_from)`; otherwise it
\* is `let Pat = arg; Expr`, the hand-written `tuple` being the case of
\* the parameter bound whole and returned.
IsMap(item) == item.by \in {"option", "result"}

Pat(item) ==
    CASE item.by = "left" -> left(Idents(item.ids))
      [] item.by = "right" -> right(Idents(item.ids))
      [] OTHER -> Ident(IdTuple)

\* The hand-written functions returning `(tuple,)`.
Expr_Wrapped(item) ==
    CASE item.by \in {"left", "right"} -> Tup(Idents(item.ids))
      [] OTHER -> Tup(<<Ident(IdTuple)>>)

Expr(item) ==
    CASE item.by \in {"left", "right"} -> Tup(Idents(item.ids))
      [] OTHER -> Ident(IdTuple)

----------------------------------------------------------------------------
(* Expansion of nested!.  An invocation is the token list split at the     *)
(* `;` of the internal rules: at says whether it starts with `@`.          *)

Invocation(at, acc, rest) == [at |-> at, acc |-> acc, rest |-> rest]

\* Rule 1 written for two leading identifiers.
NestedEntry_FromTwo ==
    /\ pending # <<>>
    /\ LET inv == Head(pending) IN
       /\ ~inv.at
       /\ Len(inv.rest) >= 2
       /\ pending' = <<Invocation(TRUE, SubSeq(inv.rest, 1, 2),
                                  SubSeq(inv.rest, 3, Len(inv.rest)))>>
                     \o Tail(pending)
    /\ UNCHANGED <<items, call>>

\* Rule 1: ($a $b $c $($ident)*) => nested!(@ $a $b $c ; $($ident)*)
NestedEntry ==
    /\ pending # <<>>
    /\ LET inv == Head(pending) IN
       /\ ~inv.at
       /\ Len(inv.rest) >= 3
       /\ pending' = <<Invocation(TRUE, SubSeq(inv.rest, 1, 3),
                                  SubSeq(inv.rest, 4, Len(inv.rest)))>>
                     \o Tail(pending)
    /\ UNCHANGED <<items, call>>

\* Rule 2 without its first invocation.
NestedStep_NoEmit ==
    /\ pending # <<>>
    /\ LET inv == Head(pending) IN
       /\ inv.at
       /\ inv.rest # <<>>
       /\ pending' = <<Invocation(TRUE, Append(inv.acc, Head(inv.rest)),
                                  Tail(inv.rest))>>
                     \o Tail(pending)
    /\ UNCHANGED <<items, call>>

\* Rule 2: (@ $($ident)* ; $next $($rest)*) =>
\*           nested!(@ $($ident)* ;); nested!(@ $($ident)* $next ; $($rest)*);
NestedStep ==
    /\ pending # <<>>
    /\ LET inv == Head(pending) IN
       /\ inv.at
       /\ inv.rest # <<>>
       /\ pending' = <<Invocation(TRUE, inv.acc, <<>>),
                       Invocation(TRUE, Append(inv.acc, Head(inv.rest)),
                                  Tail(inv.rest))>>
                     \o Tail(pending)
    /\ UNCHANGED <<items, call>>

\* Rule 3: (@ $($ident)* ;) => the left and the right instance.
NestedEmit ==
    /\ pending # <<>>
    /\ LET inv == Head(pending) IN
       /\ inv.at
       /\ inv.rest = <<>>
       /\ items' = items \o <<LeftImpl(inv.acc), RightImpl(inv.acc)>>
       /\ pending' = Tail(pending)
    /\ UNCHANGED call

Expand == NestedEntry \/ NestedStep \/ NestedEmit

\* Every macro invocation of the crate has been expanded.
Expanded == pending = <<>>

----------------------------------------------------------------------------
(* Trait selection and the conversion functions.                           *)

\* The instance applies to `Self: UnzipFrom<T>`: its header unifies with the
\* two types and its where clauses are satisfied in turn.
RECURSIVE Applies(_, _, _)
Applies(item, Self, T) ==
    /\ Matches(Tgt(item), Self)
    /\ Matches(Src(item), T)
    /\ LET bs == Binds(Src(item), T) \cup Binds(Tgt(item), Self) IN
       /\ Consistent(bs)
       /\ \A w \in Where(item) :
            \E i \in DOMAIN items :
                Applies(items[i], Lookup(bs, w[1]), Lookup(bs, w[2]))

\* The instances of the crate that apply to `Self: UnzipFrom<T>`.
Selected(Self, T) == {i \in DOMAIN items : Applies(items[i], Self, T)}

\* The bound `Self: UnzipFrom<T>` holds.
Implemented(Self, T) == Selected(Self, T) # {}

\* The body `let pat = arg; expr` of a tuple instance.
LetBody(item, arg) ==
    [val |-> Subst(Expr(item), Binds(Pat(item), arg)), calls |-> 1]

\* map returning its receiver.
MapBody_Unmapped(arg, inner) == [val |-> arg, calls |-> 1]

\* map rebuilding the error.
MapBody_ErrorRebuilt(arg, inner) ==
    IF inner = <<>>
    THEN [val |-> IF arg.k = "err" THEN Err(Lit(0)) ELSE arg, calls |-> 1]
    ELSE [val |-> Node(arg.k, 0, <<inner[1].val>>), calls |-> 1 + inner[1].calls]

\* The body `arg.map(UnzipFrom::unzip_from)` of a lifter: inner holds the
\* result of the function on the payload of Some and Ok, and nothing else.
MapBody(arg, inner) ==
    IF inner = <<>> THEN [val |-> arg, calls |-> 1]
    ELSE [val |-> Node(arg.k, 0, <<inner[1].val>>), calls |-> 1 + inner[1].calls]

\* <Self as UnzipFrom<T>>::unzip_from(arg): the value returned, and the
\* number of unzip_from bodies that ran.
RECURSIVE unzip_from(_, _, _)
unzip_from(Self, T, arg) ==
    LET item == items[CHOOSE i \in Selected(Self, T) : TRUE] IN
    IF ~IsMap(item) THEN LetBody(item, arg)
    ELSE LET bs == Binds(Src(item), T) \cup Binds(Tgt(item), Self) IN
         MapBody(arg,
                 IF arg.k \in {"some", "ok"}
                 THEN <<unzip_from(Lookup(bs, IdU), Lookup(bs, IdT), arg.el[1])>>
                 ELSE <<>>)

\* <U as UnzipInto<T>>::unzip_into(self) = T::unzip_from(self)
unzip_into(U, T, self) == unzip_from(T, U, self)

----------------------------------------------------------------------------
(* The call sites explored: a source shape over the leaves e1, e2, ... in  *)
(* reading order, possibly in an Option or a Result, and a target type.    *)

E(k) == Node("leaf", k, <<>>)
RECURSIVE Es(_)
Es(n) == IF n = 0 THEN <<>> ELSE Append(Es(n - 1), E(n))

IsPair(t) == t.k = "tup" /\ Len(t.el) = 2

\* Left-Nested Shape: the accumulated value paired with the next leaf.
RECURSIVE LeftShape(_)
LeftShape(es) ==
    IF Len(es) = 1 THEN es[1]
    ELSE Tup(<<LeftShape(SubSeq(es, 1, Len(es) - 1)), es[Len(es)]>>)

\* Right-Nested Shape: the next leaf paired with the remaining value.
RECURSIVE RightShape(_)
RightShape(es) ==
    IF Len(es) = 1 THEN es[1]
    ELSE Tup(<<es[1], RightShape(Tail(es))>>)

\* Flat Shape: the non-nested tuple.
FlatShape(es) == Tup(es)

\* Every nesting of the leaves lo..hi by pairs.
RECURSIVE Trees(_, _)
Trees(lo, hi) ==
    IF lo = hi THEN {E(lo)}
    ELSE UNION {{Tup(<<l, r>>) : l \in Trees(lo, m), r \in Trees(m + 1, hi)} :
                m \in lo..(hi - 1)}

\* The leaves of a shape in reading order.
RECURSIVE LeafSeq(_)
RECURSIVE LeafSeqOf(_, _)
LeafSeq(sk) ==
    IF sk.k = "leaf" THEN <<sk>>
    ELSE IF Len(sk.el) = 2 THEN LeafSeq(sk.el[1]) \o LeafSeq(sk.el[2])
    ELSE LeafSeqOf(sk.el, 1)
LeafSeqOf(sks, i) ==
    IF i > Len(sks) THEN <<>> ELSE LeafSeq(sks[i]) \o LeafSeqOf(sks, i + 1)

\* The components left after opening d pairs along the left (right) spine.
RECURSIVE LeftPeel(_, _)
LeftPeel(sk, d) ==
    IF d = 0 \/ ~IsPair(sk) THEN <<sk>>
    ELSE Append(LeftPeel(sk.el[1], d - 1), sk.el[2])

RECURSIVE RightPeel(_, _)
RightPeel(sk, d) ==
    IF d = 0 \/ ~IsPair(sk) THEN <<sk>>
    ELSE <<sk.el[1]>> \o RightPeel(sk.el[2], d - 1)

\* The type and the value of a shape: leaf k has the primitive type
\* 1 + (k % b) and is the number b * k.
RECURSIVE TypeOf(_, _)
TypeOf(sk, b) ==
    IF sk.k = "leaf" THEN Prim(1 + (sk.id % b))
    ELSE [k |-> sk.k, id |-> 0, el |-> [i \in 1..Len(sk.el) |-> TypeOf(sk.el[i], b)]]

RECURSIVE ValueOf(_, _)
ValueOf(sk, b) ==
    IF sk.k = "leaf" THEN Lit(b * sk.id)
    ELSE [k |-> sk.k, id |-> 0, el |-> [i \in 1..Len(sk.el) |-> ValueOf(sk.el[i], b)]]

\* The error type of the Result sources.
ErrTy == Prim(0)

SourceShapes ==
    {LeftShape(Es(n)) : n \in 1..MaxArity}
    \cup {RightShape(Es(n)) : n \in 1..MaxArity}
    \cup UNION {Trees(1, n) : n \in 1..MaxTree}
    \cup {Tup(<<E(1)>>), Tup(<<Tup(<<E(1), E(2)>>), E(3), E(4)>>)}

Variants == {"plain", "some", "none", "ok", "err"}

SourceType(sk, w, b) ==
    IF w = "plain" THEN TypeOf(sk, b)
    ELSE IF w \in {"some", "none"} THEN OptionTy(TypeOf(sk, b))
    ELSE ResultTy(TypeOf(sk, b), ErrTy)

SourceValue(sk, w, b, e) ==
    CASE w = "plain" -> ValueOf(sk, b)
      [] w = "some" -> Some(ValueOf(sk, b))
      [] w = "none" -> None
      [] w = "ok" -> Ok(ValueOf(sk, b))
      [] w = "err" -> Err(Lit(e))

\* The number of pairs along the left (right) spine.
LeftDepth(sk) == Len(LeftPeel(sk, MaxArity)) - 1
RightDepth(sk) == Len(RightPeel(sk, MaxArity)) - 1

Depths(n) == {d \in (0..MaxPeel) \cup {n - 1, n} : d >= 0}

TargetShapes(sk) ==
    {Tup(LeftPeel(sk, d)) : d \in Depths(LeftDepth(sk))}
    \cup {Tup(RightPeel(sk, d)) : d \in Depths(RightDepth(sk))}
    \cup {sk, FlatShape(LeafSeq(sk))}

\* The payload type in each wrapper, with the same and another error type.
Wrappings(t) == {t, OptionTy(t), ResultTy(t, ErrTy), ResultTy(t, Prim(1))}

TargetTypes(sk, w, b) ==
    {SourceType(tsk, w, b) : tsk \in TargetShapes(sk)}
    \cup Wrappings(TypeOf(FlatShape(LeafSeq(sk)), b))

Idle == [st |-> "idle", sk |-> Tup(<<>>), w |-> "plain", b |-> 1,
         src |-> Tup(<<>>), tgt |-> Tup(<<>>), arg |-> Tup(<<>>),
         ret |-> Tup(<<>>), calls |-> 0]

\* A call site `arg.unzip_into()` with the target type Self that compiles.
UnzipInto ==
    /\ Expanded
    /\ call.st = "idle"
    /\ \E sk \in SourceShapes, w \in Variants, b \in 1..NumBase :
       \E e \in (IF w = "err" THEN 1..MaxErr ELSE {1}) :
       \E Self \in TargetTypes(sk, w, b) :
          LET T == SourceType(sk, w, b)
              arg == SourceValue(sk, w, b, e)
          IN /\ Implemented(Self, T)
             /\ LET r == unzip_into(T, Self, arg) IN
                call' = [st |-> "returned", sk |-> sk, w |-> w, b |-> b,
                         src |-> T, tgt |-> Self, arg |-> arg,
                         ret |-> r.val, calls |-> r.calls]
    /\ UNCHANGED <<pending, items>>

\* A call site for which no instance applies: the compiler rejects it.
Rejected ==
    /\ Expanded
    /\ call.st = "idle"
    /\ \E sk \in SourceShapes, w \in Variants, b \in 1..NumBase :
       \E e \in (IF w = "err" THEN 1..MaxErr ELSE {1}) :
       \E Self \in TargetTypes(sk, w, b) :
          LET T == SourceType(sk, w, b)
              arg == SourceValue(sk, w, b, e)
          IN /\ ~Implemented(Self, T)
             /\ call' = [st |-> "rejected", sk |-> sk, w |-> w, b |-> b,
                         src |-> T, tgt |-> Self, arg |-> arg,
                         ret |-> Tup(<<>>), calls |-> 0]
    /\ UNCHANGED <<pending, items>>

\* The next call site is considered.
Return ==
    /\ call.st # "idle"
    /\ call' = Idle
    /\ UNCHANGED <<pending, items>>

Init ==
    /\ pending = <<Invocation(FALSE, <<>>, Alphabet)>>
    /\ items = <<OptionImpl, ResultImpl, Tuple1Impl, Tuple2Impl>>
    /\ call = Idle

Next == NestedEntry \/ NestedStep \/ NestedEmit \/ UnzipInto \/ Rejected \/ Return

Spec == Init /\ [][Next]_vars

\* The compiler keeps expanding while an invocation is pending.
FairSpec == Spec /\ WF_vars(Expand)

----------------------------------------------------------------------------
(* Vocabulary of the properties.                                           *)

Considered == call.st # "idle"
Returned == call.st = "returned"
Plain == call.w = "plain"

\* The call asks for a flat tuple of n components.
TargetArity == IF call.tgt.k = "tup" THEN Len(call.tgt.el) ELSE 0

\* The source value nested to arity n over the leaves e1..en.  The value
\* of arity 1 is the one-element tuple, the only form with one leaf that
\* is a tuple.
LeftNested(n) == IF n = 1 THEN Tup(Es(1)) ELSE LeftShape(Es(n))
RightNested(n) == IF n = 1 THEN Tup(Es(1)) ELSE RightShape(Es(n))

FlatType(sk, b) == TypeOf(FlatShape(LeafSeq(sk)), b)
FlatValue(sk, b) == ValueOf(FlatShape(LeafSeq(sk)), b)

\* C1: a left-nested value of arity n in 1..26, whatever its leaves are
\* (the leaf slots are the components left after opening n - 1 pairs along
\* the left spine), is accepted with the flat n-tuple of its leaves as the
\* target, and component k of the result is leaf k in reading order.
C1_LeftFlattenKeepsOrder ==
    (Considered /\ Plain /\ TargetArity \in 1..AlphabetLen) =>
        LET n == TargetArity
            slots == LeftPeel(call.sk, n - 1)
        IN /\ (/\ n >= 2
               /\ Len(slots) = n
               /\ call.tgt = TypeOf(Tup(slots), call.b))
              => /\ Returned
                 /\ Len(call.ret.el) = n
                 /\ \A k \in 1..n : call.ret.el[k] = ValueOf(slots[k], call.b)
           /\ (n = 1 /\ call.sk = LeftNested(1) /\ call.tgt = call.src)
              => /\ Returned
                 /\ call.ret = Tup(<<Lit(call.b)>>)

C1_Witness ==
    /\ Returned /\ Plain
    /\ call.sk = LeftShape(Es(AlphabetLen))
    /\ call.tgt = FlatType(call.sk, call.b)
    /\ call.ret = FlatValue(call.sk, call.b)

\* C2: a right-nested value of arity n in 1..26, whatever its leaves are,
\* is accepted with the flat n-tuple of its leaves as the target, and
\* component k of the result is leaf k in reading order.
C2_RightFlattenKeepsOrder ==
    (Considered /\ Plain /\ TargetArity \in 1..AlphabetLen) =>
        LET n == TargetArity
            slots == RightPeel(call.sk, n - 1)
        IN /\ (/\ n >= 2
               /\ Len(slots) = n
               /\ call.tgt = TypeOf(Tup(slots), call.b))
              => /\ Returned
                 /\ Len(call.ret.el) = n
                 /\ \A k \in 1..n : call.ret.el[k] = ValueOf(slots[k], call.b)
           /\ (n = 1 /\ call.sk = RightNested(1) /\ call.tgt = call.src)
              => /\ Returned
                 /\ call.ret = Tup(<<Lit(call.b)>>)

C2_Witness ==
    /\ Returned /\ Plain
    /\ call.sk = RightShape(Es(AlphabetLen))
    /\ call.tgt = FlatType(call.sk, call.b)
    /\ call.ret = FlatValue(call.sk, call.b)

\* C3: an Option source with an Option target is accepted exactly when the
\* payload conversion exists; then None gives None and Some(x) gives Some
\* of the payload conversion of x (the flat tuple of the leaves when the
\* target payload is the flat type of a left- or right-nested payload).
C3_OptionLifter ==
    (Considered /\ call.w \in {"some", "none"} /\ call.tgt.k = "option") =>
        LET U == call.tgt.el[1]
            T == call.src.el[1]
        IN /\ Returned <=> Implemented(U, T)
           /\ (Returned /\ call.w = "none") => call.ret = None
           /\ (Returned /\ call.w = "some") =>
                /\ call.ret.k = "some"
                /\ call.ret.el = <<unzip_from(U, T, call.arg.el[1]).val>>
                /\ (U = FlatType(call.sk, call.b) /\ U # T)
                   => call.ret = Some(FlatValue(call.sk, call.b))

C3_Witness ==
    /\ Returned /\ call.w = "some"
    /\ call.sk = LeftShape(Es(3))
    /\ call.ret = Some(FlatValue(call.sk, call.b))

\* C4: a Result source with a Result target of the same error type is
\* accepted exactly when the payload conversion exists; then Err(e) gives
\* the same Err(e) and only the body of the lifter runs, and Ok(x) gives Ok
\* of the payload conversion of x.
C4_ResultLifter ==
    (Considered /\ call.w \in {"ok", "err"} /\ call.tgt.k = "result") =>
        LET U == call.tgt.el[1]
            T == call.src.el[1]
        IN /\ Returned <=> (Implemented(U, T) /\ call.tgt.el[2] = call.src.el[2])
           /\ (Returned /\ call.w = "err") =>
                /\ call.ret = call.arg
                /\ call.calls = 1
           /\ (Returned /\ call.w = "ok") =>
                /\ call.ret.k = "ok"
                /\ call.ret.el = <<unzip_from(U, T, call.arg.el[1]).val>>
                /\ call.calls = 2
                /\ (U = FlatType(call.sk, call.b) /\ U # T)
                   => call.ret = Ok(FlatValue(call.sk, call.b))

C4_Witness ==
    /\ Returned /\ call.w = "err"
    /\ call.sk = LeftShape(Es(3))
    /\ call.tgt = ResultTy(FlatType(call.sk, call.b), ErrTy)
    /\ call.arg = Err(Lit(MaxErr))
    /\ call.ret = Err(Lit(MaxErr))

\* C5: a 1-tuple or a pair, whatever its components are, is accepted with
\* its own type as the target, and the result is the source value.
C5_SmallArityIdentity ==
    (Considered /\ Plain /\ TargetArity \in {1, 2} /\ call.tgt = call.src) =>
        /\ Returned
        /\ call.ret = call.arg

C5_Witness ==
    /\ Returned /\ Plain
    /\ call.sk = RightShape(Es(2))
    /\ call.tgt = call.src
    /\ call.ret = Tup(<<Lit(call.b), Lit(2 * call.b)>>)

\* The call asks to flatten the left-nested (right-nested) value of arity n
\* into the flat n-tuple of its leaves.
AsksLeftToFlat(src) ==
    /\ Considered /\ Plain
    /\ \E n \in 1..AlphabetLen :
        call.sk = src[n] /\ call.tgt = TypeOf(FlatShape(Es(n)), call.b)

\* C6 as stated, with the Left-Nested Shape of arity 1 being the single
\* leaf e1: exactly one instance converts Left-Nested Shape(n) and exactly
\* one converts Right-Nested Shape(n) to Flat Shape(n), for n in 1..26.
C6_AsStated ==
    /\ AsksLeftToFlat([n \in 1..AlphabetLen |-> LeftShape(Es(n))])
       => Cardinality(Selected(call.tgt, call.src)) = 1
    /\ AsksLeftToFlat([n \in 1..AlphabetLen |-> RightShape(Es(n))])
       => Cardinality(Selected(call.tgt, call.src)) = 1

\* C6 amended: with the shape of arity 1 being the one-element tuple (e1,),
\* exactly one instance converts the left-nested and exactly one the
\* right-nested shape of arity n in 1..26 to the flat n-tuple, and an
\* instance whose target is a flat n-tuple accepts no source but the left-
\* and the right-nesting of the target's components.
C6_OneInstancePerShape ==
    /\ AsksLeftToFlat([n \in 1..AlphabetLen |-> LeftNested(n)])
       => Cardinality(Selected(call.tgt, call.src)) = 1
    /\ AsksLeftToFlat([n \in 1..AlphabetLen |-> RightNested(n)])
       => Cardinality(Selected(call.tgt, call.src)) = 1
    /\ (Returned /\ Plain) =>
        /\ TargetArity \in 1..AlphabetLen
        /\ IF TargetArity = 1 THEN call.src = call.tgt
           ELSE \/ call.src = LeftShape(call.tgt.el)
                \/ call.src = RightShape(call.tgt.el)

C6_Witness ==
    /\ Returned /\ Plain
    /\ call.sk = Tup(Es(1))
    /\ call.tgt = call.src
    /\ Selected(call.tgt, call.src) = {3}

\* C7 as stated: no instance accepts a value nested to arity 27, whatever
\* the target.
C7_AsStated ==
    (/\ Considered /\ Plain
     /\ call.sk \in {LeftShape(Es(AlphabetLen + 1)), RightShape(Es(AlphabetLen + 1))})
    => ~Returned

\* C7 amended: no instance has a flat target of more than 26 components,
\* so a value nested to arity 27 is rejected with the flat 27-tuple of its
\* leaves as the target; it is accepted only with targets of at most 26
\* components, one of them holding a nested pair of the source.
C7_NoFlatTargetAbove26 ==
    /\ (Considered /\ Plain /\ TargetArity > AlphabetLen) => ~Returned
    /\ (/\ Returned /\ Plain
        /\ call.sk \in {LeftShape(Es(AlphabetLen + 1)),
                        RightShape(Es(AlphabetLen + 1))})
       => /\ TargetArity <= AlphabetLen
          /\ \E k \in 1..TargetArity : call.tgt.el[k].k = "tup"

C7_Witness ==
    /\ call.st = "rejected" /\ Plain
    /\ call.sk = LeftShape(Es(AlphabetLen + 1))
    /\ call.tgt = FlatType(call.sk, call.b)

\* Both components of the pair are pairs themselves.
Mixed(sk) == IsPair(sk) /\ IsPair(sk.el[1]) /\ IsPair(sk.el[2])

\* C8 as stated: no instance accepts a value that nests on both sides,
\* whatever the target.
C8_AsStated ==
    (Considered /\ Plain /\ Mixed(call.sk)) => ~Returned

\* C8 amended: a nesting by pairs of three or more leaves that is neither
\* the left- nor the right-nested shape is rejected with the flat tuple of
\* its leaves as the target; a pair of two pairs is accepted only with
\* targets in which a nested pair of the source stays one component.
C8_MixedNeverFullyFlattened ==
    /\ (/\ Considered /\ Plain
        /\ \E n \in 3..MaxTree :
            call.sk \in Trees(1, n) \ {LeftShape(Es(n)), RightShape(Es(n))}
        /\ call.tgt = FlatType(call.sk, call.b))
       => ~Returned
    /\ (Returned /\ Plain /\ Mixed(call.sk))
       => /\ TargetArity < Len(LeafSeq(call.sk))
          /\ \E k \in 1..TargetArity : call.tgt.el[k].k = "tup"

C8_Witness ==
    /\ call.st = "rejected" /\ Plain
    /\ call.sk = Tup(<<Tup(<<E(1), E(2)>>), Tup(<<E(3), E(4)>>)>>)
    /\ call.tgt = FlatType(call.sk, call.b)

\* The first n identifiers of the invocation, and the instances of the
\* item list generated by nested!.
Prefix(n) == Idents(SubSeq(Alphabet, 1, n))

Generated == {i \in DOMAIN items : items[i].by \in {"left", "right"}}

ArityOf(i) == Len(Tgt(items[i]).el)

EmittedOnce ==
    /\ \A i \in Generated :
        LET ids == Prefix(ArityOf(i)) IN
        /\ ArityOf(i) \in 3..AlphabetLen
        /\ Tgt(items[i]) = FlatShape(ids)
        /\ Src(items[i]) = IF items[i].by = "left" THEN LeftShape(ids)
                           ELSE RightShape(ids)
    /\ \A n \in 3..AlphabetLen : \A by \in {"left", "right"} :
        Cardinality({i \in Generated : items[i].by = by /\ ArityOf(i) = n}) = 1
    /\ Cardinality({i \in DOMAIN items :
                      Tgt(items[i]).k = "tup" /\ ArityOf(i) <= 2}) = 2

\* C9: the expansion of nested!(A B ... Z) terminates, and when it has, it
\* has emitted the left and the right instance of the first n identifiers
\* exactly once for every n in 3..26, and no other instance: none of arity
\* 1 or 2 beside the two written by hand.
C9_ExpansionTerminatesExact ==
    /\ <>Expanded
    /\ []((Expanded /\ call.st = "idle") => EmittedOnce)

C9_Witness ==
    /\ Expanded
    /\ Len(items) = 4 + 2 * (AlphabetLen - 2)
    /\ items[Len(items)] = RightImpl(Alphabet)

\* C10: for every source type and target type at most one instance
\* applies, at the call and at the payload of a lifter; and the left-nested
\* triple is accepted with two targets, the flat triple and its own type.
C10_AtMostOneInstancePerPair ==
    Considered =>
        /\ Cardinality(Selected(call.tgt, call.src)) <= 1
        /\ (~Plain /\ call.tgt.k \in {"option", "result"})
           => Cardinality(Selected(call.tgt.el[1], call.src.el[1])) <= 1
        /\ (Plain /\ call.sk = LeftShape(Es(3)))
           => /\ Implemented(FlatType(call.sk, call.b), call.src)
              /\ Implemented(call.src, call.src)
              /\ (call.tgt \in {FlatType(call.sk, call.b), call.src} => Returned)

C10_Witness ==
    /\ Returned /\ Plain
    /\ call.sk = LeftShape(Es(3))
    /\ call.tgt = call.src
    /\ call.ret = call.arg
    /\ Implemented(FlatType(call.sk, call.b), call.src)

====
